---- MODULE Spec2Model ----
(***************************************************************************)
(* Storage loading layer of the synthetic-data server:                     *)
(* UnifiedDataLoader.load_data (storage/loader.py), stepped at each of its *)
(* await points, with the registered target's validate and load as         *)
(* deterministic functions of the arguments they are called with.          *)
(***************************************************************************)
EXTENDS Integers, Sequences, FiniteSets, TLC

\* ------------------------------------------------------------------ bounds
\* longest list of target specs handed to load_data
MaxSpecs == 3

\* ------------------------------------------------------------------ inputs
\* table mappings handed to load_data (opaque to the loader)
Datas == {"tables", "empty"}

\* target types a spec may name; only "s3" is registered by __init__
Types == {"s3", "ftp", "gcs"}

\* configurations, told apart by what the registered target does with them
Configs == {"good", "badformat", "poison", "denied", "nobucket"}

\* a target spec: {'type': ..., 'config': ...}
TargetSpecs == [type : Types, config : Configs]

RECURSIVE SeqsUpTo(_, _)
SeqsUpTo(S, n) ==
    IF n = 0 THEN {<<>>}
    ELSE LET shorter == SeqsUpTo(S, n - 1)
         IN  shorter \cup {Append(s, x) : s \in {t \in shorter : Len(t) = n - 1}, x \in S}

SpecLists == SeqsUpTo(TargetSpecs, MaxSpecs)

\* ------------------------------------------------------- the target's side
\* await target.validate(data, config): a returned boolean or a raised error
TargetValidate(d, cfg) ==
    CASE cfg = "poison" ->
            [kind |-> "raise", value |-> <<"Cannot read configuration", d, cfg>>]
      [] cfg = "badformat" -> [kind |-> "return", value |-> FALSE]
      [] OTHER             -> [kind |-> "return", value |-> TRUE]

\* await target.load(data, config): a returned result or a raised error
TargetLoad(d, cfg) ==
    CASE cfg = "nobucket" ->
            [kind |-> "raise", value |-> <<"Failed to upload to S3", d, cfg>>]
      [] cfg = "denied" ->
            [kind |-> "return",
             value |-> [success |-> FALSE, error |-> <<"Access denied", d, cfg>>]]
      [] OTHER ->
            [kind |-> "return",
             value |-> [success |-> TRUE, uploaded_files |-> <<d, cfg>>]]

\* ------------------------------------------------------------------- state
VARIABLES
    pc,          \* where load_data stands: idle, loop, validate, load, done, raised
    self_targets,\* self.targets: the registered target types
    data,        \* argument data
    targets,     \* argument targets
    i,           \* position of the for loop in targets (1-based)
    results,     \* local results: target type -> result
    returned,    \* the envelope load_data returned
    raised,      \* the error that left load_data
    calls,       \* history: every lookup, validate and load made, in order
    earlier,     \* how an earlier call on a related spec list ended, for comparison
    records,     \* Validation Service: the records of the table under validation
    validation,  \* Validation Service: the ValidationResult returned
    s3_data,     \* S3 Target: the table mapping handed to load
    s3_config,   \* S3 Target: the config handed to load
    s3_bucket,   \* S3 Target: the objects written, in upload order
    s3_result    \* S3 Target: what load returned

\* the state of the Validation Service and of the S3 Target
serviceVars == <<records, validation, s3_data, s3_config, s3_bucket, s3_result>>

vars == <<pc, self_targets, data, targets, i, results, returned, raised, calls,
          earlier, serviceVars>>

EmptyMap == [t \in {} |-> FALSE]
None == [none |-> TRUE]

\* variant: results.setdefault(k, v), an entry already there is kept
PutKeepsFirst(m, k, v) ==
    [t \in DOMAIN m \cup {k} |-> IF t \in DOMAIN m THEN m[t] ELSE v]

\* results[k] = v
Put(m, k, v) == [t \in DOMAIN m \cup {k} |-> IF t = k THEN v ELSE m[t]]

\* variant: the type is not interpolated into the message
UnsupportedResultUnnamed(target_type) ==
    [success |-> FALSE, error |-> <<"Unsupported target type: ", "{target_type}">>]

\* lines 49-52
UnsupportedResult(target_type) ==
    [success |-> FALSE, error |-> <<"Unsupported target type: ", target_type>>]

\* lines 60-63
InvalidResult == [success |-> FALSE, error |-> <<"Invalid configuration or data">>]

\* variant: the raised error's message is dropped
ErrorResultNoMessage(e) == [success |-> FALSE, error |-> <<"Load failed">>]

\* lines 71-74
ErrorResult(e) == [success |-> FALSE, error |-> e]

\* variant: any() in place of all()
AnySuccess(res) == \E t \in DOMAIN res : res[t].success

\* line 77: all(r['success'] for r in results.values())
AllSuccess(res) == \A t \in DOMAIN res : res[t].success

\* lines 76-79
Envelope(res) == [success |-> AllSuccess(res), results |-> res]

Event(op, args, out) ==
    [op |-> op, idx |-> i, type |-> targets[i].type, args |-> args, out |-> out]

\* ----------------------------------------------------------------- actions
Init ==
    /\ pc = "idle"
    /\ self_targets = {"s3"}
    /\ data = "tables"
    /\ targets = <<>>
    /\ i = 1
    /\ results = EmptyMap
    /\ returned = None
    /\ raised = None
    /\ calls = <<>>
    /\ earlier = None
    /\ records = <<>>
    /\ validation = None
    /\ s3_data = EmptyMap
    /\ s3_config = None
    /\ s3_bucket = <<>>
    /\ s3_result = None

\* a caller invokes load_data(data, targets); line 44
load_data ==
    /\ pc = "idle"
    /\ \E d \in Datas, ts \in SpecLists :
        /\ data' = d
        /\ targets' = ts
    /\ i' = 1
    /\ results' = EmptyMap
    /\ calls' = <<>>
    /\ pc' = "loop"
    /\ UNCHANGED <<earlier, self_targets, returned, raised>>
    /\ UNCHANGED serviceVars

\* variant: break in place of continue at line 53
UnsupportedBreaks ==
    /\ pc = "loop"
    /\ i <= Len(targets)
    /\ targets[i].type \notin self_targets
    /\ results' = Put(results, targets[i].type, UnsupportedResult(targets[i].type))
    /\ calls' = Append(calls, Event("lookup", <<>>, "missing"))
    /\ i' = Len(targets) + 1
    /\ UNCHANGED <<earlier, pc, self_targets, data, targets, returned, raised>>
    /\ UNCHANGED serviceVars

\* lines 46-53: the spec's type names no registered target
Unsupported ==
    /\ pc = "loop"
    /\ i <= Len(targets)
    /\ targets[i].type \notin self_targets
    /\ results' = Put(results, targets[i].type, UnsupportedResult(targets[i].type))
    /\ calls' = Append(calls, Event("lookup", <<>>, "missing"))
    /\ i' = i + 1
    /\ UNCHANGED <<earlier, pc, self_targets, data, targets, returned, raised>>
    /\ UNCHANGED serviceVars

\* lines 46-48, 55: the spec's type is registered
Lookup ==
    /\ pc = "loop"
    /\ i <= Len(targets)
    /\ targets[i].type \in self_targets
    /\ calls' = Append(calls, Event("lookup", <<>>, "found"))
    /\ pc' = "validate"
    /\ UNCHANGED <<earlier, self_targets, data, targets, i, results, returned, raised>>
    /\ UNCHANGED serviceVars

\* line 58: validate raises, outside any try
ValidateRaises ==
    /\ pc = "validate"
    /\ TargetValidate(data, targets[i].config).kind = "raise"
    /\ calls' = Append(calls, Event("validate", <<data, targets[i].config>>, "raise"))
    /\ raised' = TargetValidate(data, targets[i].config).value
    /\ pc' = "raised"
    /\ UNCHANGED <<earlier, self_targets, data, targets, i, results, returned>>
    /\ UNCHANGED serviceVars

\* variant: the continue at line 64 is missing
ValidateFalseFallsThrough ==
    /\ pc = "validate"
    /\ TargetValidate(data, targets[i].config).kind = "return"
    /\ ~TargetValidate(data, targets[i].config).value
    /\ calls' = Append(calls, Event("validate", <<data, targets[i].config>>, "false"))
    /\ results' = Put(results, targets[i].type, InvalidResult)
    /\ pc' = "load"
    /\ UNCHANGED <<earlier, self_targets, data, targets, i, returned, raised>>
    /\ UNCHANGED serviceVars

\* lines 58-64: validate returns false
ValidateFalse ==
    /\ pc = "validate"
    /\ TargetValidate(data, targets[i].config).kind = "return"
    /\ ~TargetValidate(data, targets[i].config).value
    /\ calls' = Append(calls, Event("validate", <<data, targets[i].config>>, "false"))
    /\ results' = Put(results, targets[i].type, InvalidResult)
    /\ i' = i + 1
    /\ pc' = "loop"
    /\ UNCHANGED <<earlier, self_targets, data, targets, returned, raised>>
    /\ UNCHANGED serviceVars

\* lines 58-59: validate returns true
ValidateTrue ==
    /\ pc = "validate"
    /\ TargetValidate(data, targets[i].config).kind = "return"
    /\ TargetValidate(data, targets[i].config).value
    /\ calls' = Append(calls, Event("validate", <<data, targets[i].config>>, "true"))
    /\ pc' = "load"
    /\ UNCHANGED <<earlier, self_targets, data, targets, i, results, returned, raised>>
    /\ UNCHANGED serviceVars

\* lines 67-69: load returns its result
LoadReturns ==
    /\ pc = "load"
    /\ LET out == TargetLoad(data, targets[i].config)
       IN  /\ out.kind = "return"
           /\ calls' = Append(calls, Event("load", <<data, targets[i].config>>, "return"))
           /\ results' = Put(results, targets[i].type, out.value)
    /\ i' = i + 1
    /\ pc' = "loop"
    /\ UNCHANGED <<earlier, self_targets, data, targets, returned, raised>>
    /\ UNCHANGED serviceVars

\* variant: a raised load is tried again
LoadRaisesRetries ==
    /\ pc = "load"
    /\ LET out == TargetLoad(data, targets[i].config)
       IN  /\ out.kind = "raise"
           /\ calls' = Append(calls, Event("load", <<data, targets[i].config>>, "raise"))
           /\ results' = Put(results, targets[i].type, ErrorResult(out.value))
    /\ pc' = IF Len(calls) < 3 * Len(targets) THEN "load" ELSE "loop"
    /\ i' = IF Len(calls) < 3 * Len(targets) THEN i ELSE i + 1
    /\ UNCHANGED <<earlier, self_targets, data, targets, returned, raised>>
    /\ UNCHANGED serviceVars

\* lines 67-74: load raises and the error is recorded
LoadRaises ==
    /\ pc = "load"
    /\ LET out == TargetLoad(data, targets[i].config)
       IN  /\ out.kind = "raise"
           /\ calls' = Append(calls, Event("load", <<data, targets[i].config>>, "raise"))
           /\ results' = Put(results, targets[i].type, ErrorResult(out.value))
    /\ i' = i + 1
    /\ pc' = "loop"
    /\ UNCHANGED <<earlier, self_targets, data, targets, returned, raised>>
    /\ UNCHANGED serviceVars

\* lines 76-79: the loop is exhausted
Return ==
    /\ pc = "loop"
    /\ i > Len(targets)
    /\ returned' = Envelope(results)
    /\ pc' = "done"
    /\ UNCHANGED <<earlier, self_targets, data, targets, i, results, raised, calls>>
    /\ UNCHANGED serviceVars

Next ==
    \/ load_data
    \/ Unsupported
    \/ Lookup
    \/ ValidateRaises
    \/ ValidateFalse
    \/ ValidateTrue
    \/ LoadReturns
    \/ LoadRaises
    \/ Return

Spec == Init /\ [][Next]_vars

\* ---------------------------------------------------------------- history
Indices == 1 .. Len(targets)
EventsOf(j, op) == {k \in 1 .. Len(calls) : calls[k].idx = j /\ calls[k].op = op}
Finished == pc \in {"done", "raised"}
Registered(spec) == spec.type \in {"s3"}
\* the spec's validate raises, so the call is left at line 58
Escapes(spec) == Registered(spec) /\ TargetValidate(data, spec.config).kind = "raise"
\* the spec is valid and its load succeeds
Succeeds(spec) ==
    /\ Registered(spec)
    /\ TargetValidate(data, spec.config) = [kind |-> "return", value |-> TRUE]
    /\ TargetLoad(data, spec.config).kind = "return"
    /\ TargetLoad(data, spec.config).value.success
LastCall == calls[Len(calls)]

C2_NothingEscapes ==
    /\ pc # "raised"
    /\ pc = "done" => DOMAIN returned = {"success", "results"}

\* C3: the returned success flag is true exactly when every entry of the
\* returned results mapping has success true.
C3_SuccessIsConjunction ==
    pc = "done" =>
        /\ returned.results = results
        /\ returned.success \in BOOLEAN
        /\ returned.success <=>
             ~(\E t \in DOMAIN returned.results : returned.results[t].success = FALSE)

\* C3 witness: a returned mapping with one successful and one failed entry
C3_Witness ==
    /\ pc = "done"
    /\ returned.success = FALSE
    /\ \E t, u \in DOMAIN returned.results :
        returned.results[t].success /\ ~returned.results[u].success

\* C4: a validate that returned false is recorded as the failure "Invalid
\* configuration or data" and no load is called for that spec; every load
\* call is preceded by a validate call for the same spec, with the same
\* arguments, that returned true.
C4_LoadOnlyAfterValidate ==
    /\ \A k \in 1 .. Len(calls) :
        calls[k].op = "load" =>
            \E v \in 1 .. k - 1 :
                /\ calls[v].op = "validate"
                /\ calls[v].idx = calls[k].idx
                /\ calls[v].type = calls[k].type
                /\ calls[v].args = calls[k].args
                /\ calls[v].out = "true"
    /\ \A k \in 1 .. Len(calls) :
        (calls[k].op = "validate" /\ calls[k].out = "false") =>
            EventsOf(calls[k].idx, "load") = {}
    /\ ( /\ calls # <<>>
         /\ LastCall.op = "validate"
         /\ LastCall.out = "false" ) =>
            /\ pc # "raised"
            /\ LastCall.type \in DOMAIN results
            /\ results[LastCall.type]
                   = [success |-> FALSE, error |-> <<"Invalid configuration or data">>]

\* C4 witness: a spec failed validation and a later spec was loaded
C4_Witness ==
    /\ pc = "done"
    /\ \E k, l \in 1 .. Len(calls) :
        /\ k < l
        /\ calls[k].op = "validate" /\ calls[k].out = "false"
        /\ calls[l].op = "load"

\* C5: a load that raises is caught: the target's result is a failure whose
\* error is the raised error's message, nothing is propagated, and the loop
\* goes on to the next spec.
C5_LoadErrorRecorded ==
    ( /\ calls # <<>>
      /\ LastCall.op = "load"
      /\ LastCall.out = "raise" ) =>
        /\ pc \in {"loop", "done"}
        /\ raised = None
        /\ i = LastCall.idx + 1
        /\ LastCall.type \in DOMAIN results
        /\ results[LastCall.type]
               = [success |-> FALSE,
                  error |-> <<"Failed to upload to S3", data, targets[LastCall.idx].config>>]

\* C5 witness: a load raised and a spec after it was processed to the end
C5_Witness ==
    /\ pc = "done"
    /\ \E k, l \in 1 .. Len(calls) :
        /\ k < l
        /\ calls[k].op = "load" /\ calls[k].out = "raise"
        /\ calls[l].op = "load" /\ calls[l].out = "return"

\* C6: an unregistered type is recorded under that type as a failure naming
\* the type, neither validate nor load is called for that spec, and the
\* registry stays as __init__ built it.
C6_UnsupportedRecorded ==
    /\ self_targets = {"s3"}
    /\ \A k \in 1 .. Len(calls) :
        (calls[k].op = "lookup" /\ calls[k].out = "missing") =>
            /\ EventsOf(calls[k].idx, "validate") = {}
            /\ EventsOf(calls[k].idx, "load") = {}
    /\ \A j \in Indices :
        (j < i /\ targets[j].type \notin {"s3"}) =>
            /\ EventsOf(j, "validate") \cup EventsOf(j, "load") = {}
            /\ targets[j].type \in DOMAIN results
            /\ results[targets[j].type]
                   = [success |-> FALSE,
                      error |-> <<"Unsupported target type: ", targets[j].type>>]

\* C6 witness: two different unsupported types were recorded
C6_Witness ==
    /\ pc = "done"
    /\ {"ftp", "gcs"} \subseteq DOMAIN returned.results

\* C8: within one call, validate is invoked at most once and load at most
\* once for each spec of the list.
C8_NoRetries ==
    \A j \in Indices :
        /\ Cardinality(EventsOf(j, "validate")) <= 1
        /\ Cardinality(EventsOf(j, "load")) <= 1

\* C8 witness: a call ended in which one validate returned false and one
\* load raised
C8_Witness ==
    /\ pc = "done"
    /\ \E k, l \in 1 .. Len(calls) :
        /\ calls[k].op = "validate" /\ calls[k].out = "false"
        /\ calls[l].op = "load" /\ calls[l].out = "raise"

\* ------------------------------------------------- two calls, for comparison
RemoveAt(s, j) == SubSeq(s, 1, j - 1) \o SubSeq(s, j + 1, Len(s))
SwapAt(s, j) == [s EXCEPT ![j] = s[j + 1], ![j + 1] = s[j]]

\* spec lists that differ from s in one spec: its presence, its place or its
\* configuration
Variants(s) ==
    {RemoveAt(s, j) : j \in 1 .. Len(s)}
        \cup {SwapAt(s, j) : j \in 1 .. Len(s) - 1}
        \cup {[s EXCEPT ![j].config = c] : j \in 1 .. Len(s), c \in Configs}

\* the specs of type t, in order
OfType(s, t) == LET Same(x) == x.type = t IN SelectSeq(s, Same)

\* a second call of load_data, on the same data and a variant of the list
load_data_again ==
    /\ Finished
    /\ earlier = None
    /\ earlier' = [targets |-> targets, pc |-> pc, returned |-> returned]
    /\ \E ts \in Variants(targets) : targets' = ts
    /\ i' = 1
    /\ results' = EmptyMap
    /\ calls' = <<>>
    /\ returned' = None
    /\ raised' = None
    /\ pc' = "loop"
    /\ UNCHANGED <<self_targets, data>>
    /\ UNCHANGED serviceVars

NextPair == Next \/ load_data_again

SpecPair == Init /\ [][NextPair]_vars

\* what the caller holds for type t once a call has ended
Observed(run, t) ==
    IF run.pc = "done" /\ t \in DOMAIN run.returned.results
    THEN run.returned.results[t]
    ELSE None

\* C7: two calls on the same data whose lists hold the same specs of type t,
\* in the same order, and differ only in specs of other types, end with the
\* same result for t.
C7_TargetsIndependent ==
    (Finished /\ earlier # None) =>
        \A t \in Types :
            ( /\ OfType(targets, t) # <<>>
              /\ OfType(targets, t) = OfType(earlier.targets, t) ) =>
                Observed(earlier, t)
                    = Observed([pc |-> pc, returned |-> returned], t)

\* ------------------------------------------------------ Validation Service
\* longest table handed to the Validation Service
MaxRecords == 3

\* field names and scalar values of a record
Fields == {"id", "name"}
Values == {1, 2}

\* a record maps some field names to scalars
Records == UNION {[ks -> Values] : ks \in SUBSET Fields}

Tables == SeqsUpTo(Records, MaxRecords)

TableError(kind, table_name, ids) == [kind |-> kind, table |-> table_name, ids |-> ids]

\* (b) every record's field-name set equals the first record's
SameKeys(recs) == \A k \in 1 .. Len(recs) : DOMAIN recs[k] = DOMAIN recs[1]

\* (c) the identifier values carried by more than one record
DuplicateIds(recs) ==
    {recs[a].id : a \in {k \in 1 .. Len(recs) :
        /\ "id" \in DOMAIN recs[k]
        /\ \E b \in 1 .. Len(recs) :
            b # k /\ "id" \in DOMAIN recs[b] /\ recs[b].id = recs[k].id}}

\* variant: the checks stop at the first error found
validate_table_data_fail_fast(table_name, recs) ==
    IF recs = <<>>
    THEN [table_name |-> table_name, is_valid |-> FALSE,
          errors |-> <<TableError("cannot be empty", table_name, {})>>]
    ELSE LET errors ==
                 IF ~SameKeys(recs)
                 THEN <<TableError("must have the same keys", table_name, {})>>
                 ELSE IF DuplicateIds(recs) # {}
                      THEN <<TableError("Duplicate IDs", table_name, DuplicateIds(recs))>>
                      ELSE <<>>
         IN  [table_name |-> table_name, is_valid |-> errors = <<>>, errors |-> errors]

\* _validate_table_data(table_name, records)
validate_table_data(table_name, recs) ==
    IF recs = <<>>
    THEN [table_name |-> table_name, is_valid |-> FALSE,
          errors |-> <<TableError("cannot be empty", table_name, {})>>]
    ELSE LET keys ==
                 IF ~SameKeys(recs)
                 THEN <<TableError("must have the same keys", table_name, {})>>
                 ELSE <<>>
             dups ==
                 IF DuplicateIds(recs) # {}
                 THEN <<TableError("Duplicate IDs", table_name, DuplicateIds(recs))>>
                 ELSE <<>>
             errors == keys \o dups
         IN  [table_name |-> table_name, is_valid |-> errors = <<>>, errors |-> errors]

InitValidate ==
    /\ pc = "validation"
    /\ self_targets = {"s3"}
    /\ data = "tables"
    /\ targets = <<>>
    /\ i = 1
    /\ results = EmptyMap
    /\ returned = None
    /\ raised = None
    /\ calls = <<>>
    /\ earlier = None
    /\ records \in Tables
    /\ validation = None
    /\ s3_data = EmptyMap
    /\ s3_config = None
    /\ s3_bucket = <<>>
    /\ s3_result = None

\* the Validation Service validates one table
ValidateTable ==
    /\ pc = "validation"
    /\ validation' = validate_table_data("test_table", records)
    /\ pc' = "validated"
    /\ UNCHANGED <<self_targets, data, targets, i, results, returned, raised, calls,
                   earlier, records, s3_data, s3_config, s3_bucket, s3_result>>

NextValidate == ValidateTable

SpecValidate == InitValidate /\ [][NextValidate]_vars

\* some record's field names differ from the first record's
MixedKeys == \E k \in 1 .. Len(records) : DOMAIN records[k] # DOMAIN records[1]

\* two records carry the same id
SharedId ==
    \E a, b \in 1 .. Len(records) :
        /\ a < b
        /\ "id" \in DOMAIN records[a]
        /\ "id" \in DOMAIN records[b]
        /\ records[a].id = records[b].id

ErrorKinds == [k \in 1 .. Len(validation.errors) |-> validation.errors[k].kind]

\* C9: an empty table gives is_valid false and the single error "cannot be
\* empty"; a non-empty table gets "must have the same keys" if its records'
\* keys differ, then "Duplicate IDs" if two records share an id, both when
\* both apply; is_valid is true exactly when errors is empty, that is when
\* the table is non-empty, its keys are uniform and no id is shared.
C9_ValidationAccumulates ==
    pc = "validated" =>
        /\ records = <<>> =>
            /\ validation.is_valid = FALSE
            /\ ErrorKinds = <<"cannot be empty">>
        /\ records # <<>> =>
            /\ "cannot be empty" \notin {ErrorKinds[k] : k \in DOMAIN ErrorKinds}
            /\ (MixedKeys /\ SharedId) =>
                   ErrorKinds = <<"must have the same keys", "Duplicate IDs">>
            /\ (MixedKeys /\ ~SharedId) => ErrorKinds = <<"must have the same keys">>
            /\ (~MixedKeys /\ SharedId) => ErrorKinds = <<"Duplicate IDs">>
            /\ (~MixedKeys /\ ~SharedId) => ErrorKinds = <<>>
        /\ validation.is_valid <=> validation.errors = <<>>
        /\ validation.is_valid <=> (records # <<>> /\ ~MixedKeys /\ ~SharedId)

\* C9 witness: a table with differing keys and a shared id got both errors
C9_Witness ==
    /\ pc = "validated"
    /\ MixedKeys
    /\ SharedId
    /\ Len(validation.errors) = 2
    /\ ~validation.is_valid

\* --------------------------------------------------------------- S3 Target
\* most rows of the orders table
MaxRows == 3

Statuses == {"pending", "completed", "shipped"}
Regions == {"eu", "us"}

\* tables are loaded in this order
TableNames == <<"customers", "orders">>

\* the column that numbers a table's rows
IdColumn(name) == IF name = "orders" THEN "order_id" ELSE "id"

\* a table's rows, numbered from 1 in its id column
Numbered(name, rows) ==
    [k \in 1 .. Len(rows) |->
        [c \in DOMAIN rows[k] \cup {IdColumn(name)} |->
            IF c = IdColumn(name) THEN k ELSE rows[k][c]]]

OrdersTables ==
    {Numbered("orders", t) : t \in SeqsUpTo([status : Statuses, region : Regions], MaxRows)}

CustomersTables ==
    {Numbered("customers", t) :
        t \in {<<>>, <<[region |-> "eu"]>>, <<[region |-> "us"], [region |-> "eu"]>>}}

\* config.partitioning.columns
ColumnLists ==
    { <<"status">>, <<"region">>, <<"status", "region">>, <<"region", "status">>,
      <<"country">>, <<"status", "country">> }

Partitionings ==
    [enabled : {TRUE}, columns : ColumnLists, drop_columns : BOOLEAN]
        \cup {[enabled |-> FALSE, columns |-> <<"status">>, drop_columns |-> TRUE]}

S3Configs ==
    [bucket : {"test-bucket"}, prefix : {"data/"}, format : {"csv"},
     partitioning : Partitionings]

\* the columns of a table (a DataFrame built from no rows has none)
ColumnsOf(rows) == IF rows = <<>> THEN {} ELSE DOMAIN rows[1]

\* the partitioning columns the table has, in the config's order
PresentColumns(columns, rows) ==
    LET Has(c) == c \in ColumnsOf(rows) IN SelectSeq(columns, Has)

\* a row's value combination on the partitioning columns
PartitionOf(row, columns) == [k \in 1 .. Len(columns) |-> row[columns[k]]]

InSeq(x, s) == \E k \in 1 .. Len(s) : s[k] = x

\* variant: a new group starts whenever the value combination changes from
\* one row to the next
RECURSIVE RunKeys(_, _)
RunKeys(rows, columns) ==
    IF rows = <<>> THEN <<>>
    ELSE LET front == RunKeys(SubSeq(rows, 1, Len(rows) - 1), columns)
             key == PartitionOf(rows[Len(rows)], columns)
         IN  IF front # <<>> /\ front[Len(front)] = key THEN front ELSE Append(front, key)

\* the distinct value combinations, in order of first appearance
RECURSIVE GroupKeys(_, _)
GroupKeys(rows, columns) ==
    IF rows = <<>> THEN <<>>
    ELSE LET front == GroupKeys(SubSeq(rows, 1, Len(rows) - 1), columns)
             key == PartitionOf(rows[Len(rows)], columns)
         IN  IF InSeq(key, front) THEN front ELSE Append(front, key)

\* drop_columns: a row without the partitioning columns
Drop(row, columns) ==
    [c \in DOMAIN row \ {columns[k] : k \in 1 .. Len(columns)} |-> row[c]]

\* _apply_partitioning for one table: its sub-tables, one per value combination
apply_partitioning(rows, partition_config) ==
    LET columns == PresentColumns(partition_config.columns, rows)
        keys == GroupKeys(rows, columns)
        Part(key) ==
            LET Mine(r) == PartitionOf(r, columns) = key
                mine == SelectSeq(rows, Mine)
            IN  [columns |-> columns,
                 values |-> key,
                 rows |-> IF partition_config.drop_columns
                          THEN [k \in 1 .. Len(mine) |-> Drop(mine[k], columns)]
                          ELSE mine]
    IN  [k \in 1 .. Len(keys) |-> Part(keys[k])]

\* the units of one table: its partitions, or the whole table
UnitsOf(rows, config) ==
    IF config.partitioning.enabled
    THEN apply_partitioning(rows, config.partitioning)
    ELSE <<[columns |-> <<>>, values |-> <<>>, rows |-> rows]>>

\* _convert_format: the encoded content, by its format, header and rows
convert_format(rows, format) ==
    [format |-> format, header |-> ColumnsOf(rows), rows |-> rows]

RECURSIVE PartitionPath(_, _)
PartitionPath(columns, values) ==
    IF columns = <<>> THEN <<>>
    ELSE <<columns[1], "=", values[1], "/">> \o PartitionPath(Tail(columns), Tail(values))

\* <prefix><table-name>/[<column>=<value>/...]<table-name>.<extension>
ObjectKey(prefix, name, unit, format) ==
    <<prefix, name, "/">> \o PartitionPath(unit.columns, unit.values) \o <<name, ".", format>>

\* the objects load writes for one table
ObjectsOf(name, rows, config) ==
    LET units == UnitsOf(rows, config)
    IN  [k \in 1 .. Len(units) |->
            [bucket |-> config.bucket,
             key |-> ObjectKey(config.prefix, name, units[k], config.format),
             content |-> convert_format(units[k].rows, config.format)]]

RECURSIVE AllObjects(_, _, _)
AllObjects(names, tables, config) ==
    IF names = <<>> THEN <<>>
    ELSE ObjectsOf(names[1], tables[names[1]], config)
             \o AllObjects(Tail(names), tables, config)

\* _upload_to_s3's descriptor of a written object
Descriptor(object) ==
    [bucket |-> object.bucket, key |-> object.key, size |-> Len(object.content.rows),
     storage_class |-> "STANDARD", encryption |-> "AES256"]

InitS3 ==
    /\ pc = "s3"
    /\ self_targets = {"s3"}
    /\ data = "tables"
    /\ targets = <<>>
    /\ i = 1
    /\ results = EmptyMap
    /\ returned = None
    /\ raised = None
    /\ calls = <<>>
    /\ earlier = None
    /\ records = <<>>
    /\ validation = None
    /\ \E o \in OrdersTables, c \in CustomersTables :
        s3_data = [n \in {"customers", "orders"} |-> IF n = "orders" THEN o ELSE c]
    /\ s3_config \in S3Configs
    /\ s3_bucket = <<>>
    /\ s3_result = None

\* S3Target.load(data, config)
S3Load ==
    /\ pc = "s3"
    /\ s3_bucket' = AllObjects(TableNames, s3_data, s3_config)
    /\ s3_result' =
        [success |-> TRUE,
         uploaded_files |-> [k \in 1 .. Len(s3_bucket') |-> Descriptor(s3_bucket'[k])]]
    /\ pc' = "s3 loaded"
    /\ UNCHANGED <<self_targets, data, targets, i, results, returned, raised, calls,
                   earlier, records, validation, s3_data, s3_config>>

NextS3 == S3Load

SpecS3 == InitS3 /\ [][NextS3]_vars

\* the partitioning columns that table `name` has
PartitionColumns(name) ==
    {c \in {s3_config.partitioning.columns[k] :
                k \in 1 .. Len(s3_config.partitioning.columns)} :
        s3_data[name] # <<>> /\ c \in DOMAIN s3_data[name][1]}

\* the distinct value combinations of those columns among the table's rows
Combinations(name) ==
    {[c \in PartitionColumns(name) |-> s3_data[name][k][c]] :
        k \in 1 .. Len(s3_data[name])}

\* the written objects of table `name`
Written(name) == {k \in 1 .. Len(s3_bucket) : s3_bucket[k].key[2] = name}

\* the key holds the segment <column>=<value>
HasSegment(key, column, value) ==
    \E p \in 1 .. Len(key) - 3 :
        /\ key[p] = column
        /\ key[p + 1] = "="
        /\ key[p + 2] = value
        /\ key[p + 3] = "/"

\* object k holds the row numbered n of table `name`
Holds(k, name, n) ==
    \E r \in 1 .. Len(s3_bucket[k].content.rows) :
        s3_bucket[k].content.rows[r][IdColumn(name)] = n

\* C10: with partitioning enabled, each table gets exactly one object per
\* distinct value combination of the partitioning columns it has, every key
\* holds <column>=<value> for its partition, every row is in exactly one
\* object, and with drop_columns no written content keeps a partitioning
\* column.
C10_OneObjectPerPartition ==
    (pc = "s3 loaded" /\ s3_config.partitioning.enabled) =>
        /\ Len(s3_result.uploaded_files) = Len(s3_bucket)
        /\ \A k \in 1 .. Len(s3_bucket) :
            s3_result.uploaded_files[k].key = s3_bucket[k].key
        /\ \A name \in DOMAIN s3_data :
            /\ Cardinality(Written(name)) = Cardinality(Combinations(name))
            /\ Cardinality({s3_bucket[k].key : k \in Written(name)})
                   = Cardinality(Combinations(name))
            /\ \A n \in 1 .. Len(s3_data[name]) :
                /\ Cardinality({k \in Written(name) : Holds(k, name, n)}) = 1
                /\ \A k \in Written(name) :
                    Holds(k, name, n) =>
                        \A c \in PartitionColumns(name) :
                            HasSegment(s3_bucket[k].key, c, s3_data[name][n][c])
            /\ s3_config.partitioning.drop_columns =>
                \A k \in Written(name) :
                    /\ s3_bucket[k].content.header \cap PartitionColumns(name) = {}
                    /\ \A r \in 1 .. Len(s3_bucket[k].content.rows) :
                        DOMAIN s3_bucket[k].content.rows[r]
                            \cap PartitionColumns(name) = {}

\* C10 witness: orders with three distinct status values, partitioned by
\* status with drop_columns, gave three objects
C10_Witness ==
    /\ pc = "s3 loaded"
    /\ s3_config.partitioning = [enabled |-> TRUE, columns |-> <<"status">>,
                                 drop_columns |-> TRUE]
    /\ {s3_data["orders"][k].status : k \in 1 .. Len(s3_data["orders"])} = Statuses
    /\ Cardinality(Written("orders")) = 3

\* ------------------------------------------------- one entry per target type
\* the position of the last spec of type t in the list
LastOfType(t) ==
    CHOOSE j \in Indices :
        /\ targets[j].type = t
        /\ \A k \in Indices : targets[k].type = t => k <= j

\* what the spec at position j comes to on its own
OutcomeOf(j) ==
    LET spec == targets[j]
    IN  IF spec.type \notin {"s3"}
        THEN [success |-> FALSE, error |-> <<"Unsupported target type: ", spec.type>>]
        ELSE IF ~TargetValidate(data, spec.config).value
        THEN [success |-> FALSE, error |-> <<"Invalid configuration or data">>]
        ELSE IF TargetLoad(data, spec.config).kind = "raise"
        THEN [success |-> FALSE, error |-> TargetLoad(data, spec.config).value]
        ELSE TargetLoad(data, spec.config).value

\* C11: the returned results mapping has exactly one entry per distinct type
\* of the spec list (none, with success true, for the empty list); the entry
\* of a type is the outcome of the last spec of that type, and the overall
\* success is decided by those last outcomes alone, whatever earlier specs
\* of the same type came to.
C11_LastSpecOfTypeWins ==
    pc = "done" =>
        /\ DOMAIN returned.results = {targets[j].type : j \in Indices}
        /\ targets = <<>> => (returned.results = EmptyMap /\ returned.success = TRUE)
        /\ \A t \in DOMAIN returned.results :
            returned.results[t] = OutcomeOf(LastOfType(t))
        /\ returned.success <=>
            \A t \in {targets[j].type : j \in Indices} : OutcomeOf(LastOfType(t)).success

\* C11 witness: a failed spec was followed by a successful spec of the same
\* type, and the call returned success true with one entry
C11_Witness ==
    /\ pc = "done"
    /\ Len(targets) = 2
    /\ targets[1].type = targets[2].type
    /\ ~OutcomeOf(1).success
    /\ OutcomeOf(2).success
    /\ returned.success = TRUE
    /\ Cardinality(DOMAIN returned.results) = 1

====
